---- MODULE Spec2Model ----
(***************************************************************************)
(* Calcutta auction win-probability calculator                              *)
(* (scripts/calculate_odds.py, with the bracket trees that                  *)
(* scripts/parse_excel.py builds).                                          *)
(*                                                                          *)
(* The model follows simulate() statement by statement: one action per      *)
(* phase of the trial loop.  A call of simulate_tree or                     *)
(* simulate_championship is evaluated inside the action that makes it; the  *)
(* operators return the SET of outcomes the pseudorandom draws allow.       *)
(* Floats are modelled as exact rationals [n, d]; a team dict is            *)
(* represented by its id wherever the code passes the dict around.          *)
(***************************************************************************)
EXTENDS Integers, Sequences, FiniteSets, TLC

\* ------------------------------------------------------------------------
\*  Bounds of the exploration
\* ------------------------------------------------------------------------
\* largest --iterations explored
MaxIter == 2
\* --iterations explored for the 23-team and 12-team club brackets
ClubIter == 1
\* pseudorandom values >= 1/2 an unseeded run may draw (the rest are 0.0)
MaxHigh == 1
\* the same, for the 23-team and 12-team club brackets
ClubHigh == 1
\* seeds 0..MaxSeed are explored for --seed
MaxSeed == 3
\* the strength functions are applied to records with up to MaxGames wins,
\* losses and ties, to weights of 0/2..MaxWeightNum/2, to seeds up to
\* MaxOver past the seed ceiling and to strengths of 0/4..MaxStrengthNum/4
MaxGames == 1
MaxWeightNum == 2
MaxOver == 2
MaxStrengthNum == 5
\* ------------------------------------------------------------------------
\*  Exact rationals standing for Python floats
\* ------------------------------------------------------------------------
\* Every operator binds its arguments before it uses them (a \in {x}), so
\* that an argument is evaluated once however often the body names it.
Abs(x) == IF x < 0 THEN -x ELSE x

RECURSIVE GCD(_, _)
GCD(a, b) ==
    IF b = 0 THEN a ELSE CHOOSE g \in {GCD(b, r) : r \in {a % b}} : TRUE

Rat(n, d) ==
    CHOOSE q \in {[n |-> nn \div g, d |-> dd \div g] :
                    <<nn, dd, g>> \in {<<m, e, GCD(Abs(m), e)>> :
                                          <<m, e>> \in {<<n, d>>}}} : TRUE
RInt(k) == [n |-> k, d |-> 1]
RAdd(x, y) ==
    CHOOSE q \in {Rat(a.n * b.d + b.n * a.d, a.d * b.d) :
                    <<a, b>> \in {<<x, y>>}} : TRUE
RSub(x, y) ==
    CHOOSE q \in {Rat(a.n * b.d - b.n * a.d, a.d * b.d) :
                    <<a, b>> \in {<<x, y>>}} : TRUE
RMul(x, y) ==
    CHOOSE q \in {Rat(a.n * b.n, a.d * b.d) : <<a, b>> \in {<<x, y>>}} : TRUE
RDiv(x, y) ==
    CHOOSE q \in {Rat(a.n * b.d, a.d * b.n) : <<a, b>> \in {<<x, y>>}} : TRUE
RLt(x, y) == \E <<a, b>> \in {<<x, y>>} : a.n * b.d < b.n * a.d
RLe(x, y) == \E <<a, b>> \in {<<x, y>>} : a.n * b.d <= b.n * a.d
RMax(x, y) ==
    CHOOSE q \in {IF RLt(a, b) THEN b ELSE a : <<a, b>> \in {<<x, y>>}} : TRUE
RMin(x, y) ==
    CHOOSE q \in {IF RLt(b, a) THEN b ELSE a : <<a, b>> \in {<<x, y>>}} : TRUE
Half == Rat(1, 2)

\* ------------------------------------------------------------------------
\*  STRENGTH CALCULATIONS
\* ------------------------------------------------------------------------
\* A team: [id, name, wins, losses, ties, h2h, seed]; h2h is the sequence of
\* the records [w, l] held by the dict t["h2h"] (its values()).

strength_from_standings(t) ==
    LET gp == t.wins + t.losses + t.ties
    IN  IF gp = 0 THEN Half
        ELSE RDiv(RAdd(RInt(t.wins), RMul(RInt(t.ties), Half)), RInt(gp))

RECURSIVE SumW(_)
SumW(h) == IF h = << >> THEN 0 ELSE Head(h).w + SumW(Tail(h))
RECURSIVE SumG(_)
SumG(h) == IF h = << >> THEN 0 ELSE Head(h).w + Head(h).l + SumG(Tail(h))

\* strength_from_h2h with 0, not 0.5, for a team without h2h data
strength_from_h2h_zero(t) ==
    IF t.h2h = << >> THEN RInt(0)
    ELSE LET tw == SumW(t.h2h)
             tg == SumG(t.h2h)
         IN  IF tg # 0 THEN Rat(tw, tg) ELSE Half

strength_from_h2h(t) ==
    IF t.h2h = << >> THEN Half
    ELSE LET tw == SumW(t.h2h)
             tg == SumG(t.h2h)
         IN  IF tg # 0 THEN Rat(tw, tg) ELSE Half

\* the seed ceiling of "1.0 - seed / 50.0"
SeedCeiling == 50

\* effective_weights with the h2h weight split evenly between the two others
effective_weights_even_split(t, weights) ==
    LET has_h2h == t.h2h # << >>
        total_other == RAdd(weights.standings, weights.draw)
    IN  IF ~has_h2h /\ RLt(RInt(0), total_other)
        THEN [standings |-> RAdd(weights.standings, RMul(weights.h2h, Half)),
              h2h |-> RInt(0),
              draw |-> RAdd(weights.draw, RMul(weights.h2h, Half))]
        ELSE weights

\* lines 56-67: w_stand, w_h2h, w_seed as they stand before line 69
effective_weights(t, weights) ==
    LET has_h2h == t.h2h # << >>
        total_other == RAdd(weights.standings, weights.draw)
    IN  IF ~has_h2h /\ RLt(RInt(0), total_other)
        THEN [standings |-> RAdd(weights.standings,
                                 RMul(weights.h2h,
                                      RDiv(weights.standings, total_other))),
              h2h |-> RInt(0),
              draw |-> RAdd(weights.draw,
                            RMul(weights.h2h, RDiv(weights.draw, total_other)))]
        ELSE weights

\* seed_factor counted from seed 1: 1.0 - (seed - 1) / 50.0
seed_factor_from_one(t) ==
    RMax(RInt(0), RSub(RInt(1), Rat(t.seed - 1, SeedCeiling)))

\* seed_factor without the floor max(0, ...)
seed_factor_unfloored(t) == RSub(RInt(1), Rat(t.seed, SeedCeiling))

\* line 73: max(0, 1.0 - seed / 50.0)
seed_factor(t) == RMax(RInt(0), RSub(RInt(1), Rat(t.seed, SeedCeiling)))

\* lines 69-74: the three weighted signals
signals(t, weights) ==
    LET w == effective_weights(t, weights)
    IN  [ws |-> RMul(w.standings, strength_from_standings(t)),
         wh |-> RMul(w.h2h, strength_from_h2h(t)),
         ws_seed |-> RMul(w.draw, seed_factor(t))]

composite_strength(t, weights) ==
    LET s == signals(t, weights)
    IN  RAdd(RAdd(s.ws, s.wh), s.ws_seed)

\* pairwise_win_prob smoothed by 0.01 on each side: (sa + 0.01) / (total + 0.02)
pairwise_win_prob_smoothed(sa, sb) ==
    RDiv(RAdd(sa, Rat(1, 100)), RAdd(RAdd(sa, sb), Rat(2, 100)))

\* pairwise_win_prob with the numerator taken from the opponent
pairwise_win_prob_of_b(sa, sb) ==
    LET total == RAdd(sa, sb)
    IN  IF RLt(RInt(0), total) THEN RDiv(sb, total) ELSE Half

pairwise_win_prob(sa, sb) ==
    LET total == RAdd(sa, sb)
    IN  IF RLt(RInt(0), total) THEN RDiv(sa, total) ELSE Half

\* strength_map.get(id, 0.5)
StrengthOf(strength_map, id) ==
    IF id \in DOMAIN strength_map THEN strength_map[id] ELSE Half

\* ------------------------------------------------------------------------
\*  BRACKET TREE HELPERS (parse_excel.py)
\* ------------------------------------------------------------------------
\* loser_slot=None: the match node carries no "loserSlot" key
NoSlot == ""

team(tid) == [kind |-> "team", team |-> tid]
slot(ref) == [kind |-> "slot", slot |-> ref]
match(left, right, loser_slot) ==
    [kind |-> "match", left |-> left, right |-> right, loserSlot |-> loser_slot]
match2(left, right) == match(left, right, NoSlot)

\* ------------------------------------------------------------------------
\*  MEN'S BRACKET (23 teams)
\* ------------------------------------------------------------------------
build_mens_bracket ==
    LET q1 == match(
                match(match(team("lessard"), team("clark"), "B1"),
                      team("duckworth"), "B9"),
                match(team("smith"), team("carson"), "B8"),
                "B28")
        q2 == match(
                match(match(team("wilson"), team("poole"), "B2"),
                      team("moss"), "B10"),
                match(match(team("feilding"), team("flock"), "B3"),
                      team("linder"), "B11"),
                "B27")
        q3 == match(
                match(match(team("richardson"), team("kelly"), "B4"),
                      team("waddell"), "B12"),
                match(match(team("bell"), team("nickles"), "B5"),
                      team("lefebvre"), "B13"),
                "B29")
        q4 == match(
                match(match(team("henry"), team("annable"), "B6"),
                      team("kennedy"), "B14"),
                match(match(team("cameron"), team("snethun"), "B7"),
                      team("fairbanks"), "B15"),
                "B30")
        q5 == match(
                match(match(slot("B1"), slot("B12"), "C1"),
                      slot("B13"), "C8"),
                slot("B27"), "D1")
        q6 == match(
                match(match(slot("B14"), slot("B15"), "C2"),
                      match(slot("B2"), slot("B3"), "C3"), "C9"),
                slot("B28"), "D2")
        q7 == match(
                match(match(slot("B9"), slot("B4"), "C4"),
                      match(slot("B8"), slot("B5"), "C5"), "C10"),
                slot("B29"), "D3")
        q8 == match(
                match(match(slot("B10"), slot("B6"), "C6"),
                      match(slot("B11"), slot("B7"), "C7"), "C11"),
                slot("B30"), "D4")
        championship == [numQualifiers |-> 8,
                         quarterSeed |-> << <<0, 7>>, <<1, 6>>, <<2, 5>>, <<3, 4>> >>,
                         semiPairs |-> << <<0, 1>>, <<2, 3>> >>]
        c_event == match2(
                     match2(
                       match2(match2(slot("C3"), slot("C6")), slot("C7")),
                       match2(match2(slot("C4"), slot("C5")), slot("C9"))),
                     match2(
                       match2(slot("C11"), slot("C8")),
                       match2(match2(slot("C1"), slot("C2")), slot("C10"))))
        d_event == match2(
                     match2(slot("D1"), slot("D2")),
                     match2(slot("D3"), slot("D4")))
    IN  [a_event |-> <<q1, q2, q3, q4>>,
         b_event |-> <<q5, q6, q7, q8>>,
         championship |-> championship,
         c_event |-> c_event,
         d_event |-> d_event]

\* ------------------------------------------------------------------------
\*  WOMEN'S BRACKET (12 teams)
\* ------------------------------------------------------------------------
build_womens_bracket ==
    LET q1 == match(
                match(match(team("williams"), team("patrick"), "L3"),
                      team("sheeran"), "L5"),
                match(match(team("wilson"), team("lougheed"), "L2"),
                      team("snethun"), "L6"),
                "L9")
        q2 == match(
                match(match(team("hawkins"), team("inman"), "L1"),
                      team("newman"), "L7"),
                match(match(team("loczy"), team("vogt"), "L4"),
                      team("clark"), "L8"),
                "L10")
        q7 == match(
                match(match(slot("L3"), slot("L6"), "C1"),
                      match(slot("L4"), slot("L5"), "C2"), "C5"),
                slot("L10"), "D1")
        q8 == match(
                match(match(slot("L1"), slot("L8"), "C3"),
                      match(slot("L2"), slot("L7"), "C4"), "C6"),
                slot("L9"), "D2")
        championship == [numQualifiers |-> 4,
                         quarterSeed |-> << <<0, 3>>, <<1, 2>> >>,
                         semiPairs |-> << <<0, 1>> >>]
        c_event == match2(
                     match2(match2(slot("C1"), slot("C2")), slot("C6")),
                     match2(match2(slot("C3"), slot("C4")), slot("C5")))
        d_event == match2(slot("D1"), slot("D2"))
    IN  [a_event |-> <<q1, q2>>,
         b_event |-> <<q7, q8>>,
         championship |-> championship,
         c_event |-> c_event,
         d_event |-> d_event]

\* ------------------------------------------------------------------------
\*  ROSTERS
\* ------------------------------------------------------------------------
\* parse_rosters: a fresh team has no games, no h2h, and its roster number
\* as seed (the display name is the id with its capital letter).
RosterTeam(tid, num) ==
    [id |-> tid, name |-> tid, wins |-> 0, losses |-> 0, ties |-> 0,
     h2h |-> << >>, seed |-> num]

Roster(ids) == [i \in 1..Len(ids) |-> RosterTeam(ids[i], i)]

MensIds == <<"lessard", "clark", "duckworth", "smith", "carson",
             "wilson", "poole", "moss", "feilding", "flock", "linder",
             "richardson", "kelly", "waddell", "bell", "nickles", "lefebvre",
             "henry", "annable", "kennedy", "cameron", "snethun", "fairbanks">>

WomensIds == <<"williams", "patrick", "sheeran", "wilson", "lougheed", "snethun",
               "hawkins", "inman", "newman", "loczy", "vogt", "clark">>

\* ------------------------------------------------------------------------
\*  PSEUDORANDOM SOURCE (module random)
\* ------------------------------------------------------------------------
\* random.random() returns a float of [0, 1); the model draws 0.0 or 0.75.
\* rng = [seeded, x, pos, hi]: after random.seed(s) the values are those of
\* the generator x' = (5x + 3) mod RngMod started at s; unseeded, the
\* generator starts from system entropy and any value may come next.
\* pos counts the values consumed, hi the 0.75s an unseeded run may still
\* draw within the bound of the exploration.
LowDraw == Rat(0, 1)
HighDraw == Rat(3, 4)
RngMod == 16

\* random_seed with the seed ignored: the generator starts from entropy
random_seed_ignored(s) == [seeded |-> FALSE, x |-> 0, pos |-> 0, hi |-> 1]

random_seed(s) == [seeded |-> TRUE, x |-> s % RngMod, pos |-> 0, hi |-> 0]
random_unseeded(budget) == [seeded |-> FALSE, x |-> 0, pos |-> 0, hi |-> budget]

\* the set of [u, rng]: the value returned and the generator afterwards
random_random(rng) ==
    IF rng.seeded
    THEN LET x2 == (5 * rng.x + 3) % RngMod
         IN  {[u |-> IF 2 * x2 >= RngMod THEN HighDraw ELSE LowDraw,
               rng |-> [rng EXCEPT !.x = x2, !.pos = @ + 1]]}
    ELSE {[u |-> LowDraw, rng |-> [rng EXCEPT !.pos = @ + 1]]}
         \cup (IF rng.hi > 0
               THEN {[u |-> HighDraw,
                      rng |-> [rng EXCEPT !.pos = @ + 1, !.hi = @ - 1]]}
               ELSE {})

\* ------------------------------------------------------------------------
\*  BRACKET TREE SIMULATION
\* ------------------------------------------------------------------------
\* Exceptions: [type, slot, key]; NoErr is normal completion.
NoErr == [type |-> "none", slot |-> "", key |-> ""]
\* SlotError with a message that leaves the slot out
SlotErrorUnnamed(ref) == [type |-> "KeyError", slot |-> "", key |-> ""]

\* KeyError(f"Slot '{ref}' not yet filled — bracket order error")
SlotError(ref) == [type |-> "KeyError", slot |-> ref, key |-> ""]
\* KeyError raised by teams_map[node["team"]]
TeamKeyError(tid) == [type |-> "KeyError", slot |-> "", key |-> tid]
\* ValueError(f"Unknown bracket node: {node}")
NodeError == [type |-> "ValueError", slot |-> "", key |-> ""]
IndexError == [type |-> "IndexError", slot |-> "", key |-> ""]
\* raised by "event_wins[...][tid] / iterations" when iterations is 0
ZeroDivisionError == [type |-> "ZeroDivisionError", slot |-> "", key |-> ""]

\* What a trial has done so far, in order: slot reads, slot writes, matches.
Ev(op, s, a, b, w) == [op |-> op, slot |-> s, a |-> a, b |-> b, w |-> w]

\* slot_map[ref] = t
SlotPut(slot_map, ref, t) ==
    [r \in (DOMAIN slot_map) \cup {ref} |-> IF r = ref THEN t ELSE slot_map[r]]

\* PlayMatch with the winner, not the loser, stored in the loser slot
PlayMatchStoresWinner(m, left, right, strength_map, st, d) ==
    LET sl == StrengthOf(strength_map, left)
        sr == StrengthOf(strength_map, right)
        leftWins == RLt(d.u, pairwise_win_prob(sl, sr))
        winner == IF leftWins THEN left ELSE right
        played == Append(st.trace, Ev("match", m.loserSlot, left, right, winner))
    IN  [err |-> NoErr, winner |-> winner,
         st |-> IF m.loserSlot # NoSlot
                THEN [slot_map |-> SlotPut(st.slot_map, m.loserSlot, winner),
                      rng |-> d.rng,
                      trace |-> Append(played, Ev("write", m.loserSlot, winner, "", ""))]
                ELSE [slot_map |-> st.slot_map, rng |-> d.rng, trace |-> played]]

\* PlayMatch without "if loser_slot": the loser is stored under the missing
\* name when the match has no loserSlot
PlayMatchAlwaysWrites(m, left, right, strength_map, st, d) ==
    LET sl == StrengthOf(strength_map, left)
        sr == StrengthOf(strength_map, right)
        leftWins == RLt(d.u, pairwise_win_prob(sl, sr))
        winner == IF leftWins THEN left ELSE right
        loser == IF leftWins THEN right ELSE left
        played == Append(st.trace, Ev("match", m.loserSlot, left, right, winner))
    IN  [err |-> NoErr, winner |-> winner,
         st |-> [slot_map |-> SlotPut(st.slot_map, m.loserSlot, loser),
                 rng |-> d.rng,
                 trace |-> IF m.loserSlot # NoSlot
                           THEN Append(played, Ev("write", m.loserSlot, loser, "", ""))
                           ELSE played]]

\* PlayMatch with the left competitor stored in the loser slot, whoever won
PlayMatchStoresLeft(m, left, right, strength_map, st, d) ==
    LET sl == StrengthOf(strength_map, left)
        sr == StrengthOf(strength_map, right)
        winner == IF RLt(d.u, pairwise_win_prob(sl, sr)) THEN left ELSE right
        played == Append(st.trace, Ev("match", m.loserSlot, left, right, winner))
    IN  [err |-> NoErr, winner |-> winner,
         st |-> IF m.loserSlot # NoSlot
                THEN [slot_map |-> SlotPut(st.slot_map, m.loserSlot, left),
                      rng |-> d.rng,
                      trace |-> Append(played, Ev("write", m.loserSlot, left, "", ""))]
                ELSE [slot_map |-> st.slot_map, rng |-> d.rng, trace |-> played]]

\* lines 115-126: the draw d decides the match between left and right
PlayMatch(m, left, right, strength_map, st, d) ==
    LET sl == StrengthOf(strength_map, left)
        sr == StrengthOf(strength_map, right)
        Decided(winner, loser) ==
            LET played == Append(st.trace,
                                 Ev("match", m.loserSlot, left, right, winner))
            IN  [err |-> NoErr, winner |-> winner,
                 st |-> IF m.loserSlot # NoSlot
                        THEN [slot_map |-> SlotPut(st.slot_map, m.loserSlot, loser),
                              rng |-> d.rng,
                              trace |-> Append(played,
                                  Ev("write", m.loserSlot, loser, "", ""))]
                        ELSE [slot_map |-> st.slot_map, rng |-> d.rng,
                              trace |-> played]]
    IN  IF RLt(d.u, pairwise_win_prob(sl, sr))
        THEN Decided(left, right)
        ELSE Decided(right, left)

\* simulate_tree with the right child of a match resolved before the left
RECURSIVE simulate_tree_right_first(_, _, _, _)
simulate_tree_right_first(node, strength_map, teams_map, st) ==
    CASE node.kind = "team" ->
           IF node.team \in DOMAIN teams_map
           THEN {[err |-> NoErr, winner |-> teams_map[node.team].id, st |-> st]}
           ELSE {[err |-> TeamKeyError(node.team), winner |-> "", st |-> st]}
      [] node.kind = "slot" ->
           IF node.slot \in DOMAIN st.slot_map
           THEN {[err |-> NoErr, winner |-> st.slot_map[node.slot],
                  st |-> [st EXCEPT !.trace = Append(@,
                            Ev("read", node.slot, st.slot_map[node.slot], "", ""))]]}
           ELSE {[err |-> SlotError(node.slot), winner |-> "", st |-> st]}
      [] node.kind = "match" ->
           UNION {
             IF R.err # NoErr THEN {R}
             ELSE UNION {
                    IF L.err # NoErr THEN {L}
                    ELSE {PlayMatch(node, L.winner, R.winner, strength_map, L.st, d)
                            : d \in random_random(L.st.rng)}
                    : L \in simulate_tree_right_first(node.left, strength_map,
                                                      teams_map, R.st)}
             : R \in simulate_tree_right_first(node.right, strength_map,
                                               teams_map, st)}
      [] OTHER -> {[err |-> NodeError, winner |-> "", st |-> st]}

\* st = [slot_map, rng, trace]; the result is the set of [err, winner, st]
\* the draws allow, st being the state when the call returns or raises.
RECURSIVE simulate_tree(_, _, _, _)
simulate_tree(node, strength_map, teams_map, st) ==
    CASE node.kind = "team" ->
           IF node.team \in DOMAIN teams_map
           THEN {[err |-> NoErr, winner |-> teams_map[node.team].id, st |-> st]}
           ELSE {[err |-> TeamKeyError(node.team), winner |-> "", st |-> st]}
      [] node.kind = "slot" ->
           IF node.slot \in DOMAIN st.slot_map
           THEN {[err |-> NoErr, winner |-> st.slot_map[node.slot],
                  st |-> [st EXCEPT !.trace = Append(@,
                            Ev("read", node.slot, st.slot_map[node.slot], "", ""))]]}
           ELSE {[err |-> SlotError(node.slot), winner |-> "", st |-> st]}
      [] node.kind = "match" ->
           UNION {
             IF L.err # NoErr THEN {L}
             ELSE UNION {
                    IF R.err # NoErr THEN {R}
                    ELSE {PlayMatch(node, L.winner, R.winner, strength_map, R.st, d)
                            : d \in random_random(R.st.rng)}
                    : R \in simulate_tree(node.right, strength_map, teams_map, L.st)}
             : L \in simulate_tree(node.left, strength_map, teams_map, st)}
      [] OTHER -> {[err |-> NodeError, winner |-> "", st |-> st]}

\* ------------------------------------------------------------------------
\*  CHAMPIONSHIP / CONSOLATION
\* ------------------------------------------------------------------------
\* Python list indexing: seq[i] with 0 <= i < len, or -len <= i < 0
ValidIndex(seq, i) == -Len(seq) <= i /\ i < Len(seq)
At(seq, i) == IF i >= 0 THEN seq[i + 1] ELSE seq[Len(seq) + i + 1]

\* ChampMatch with the winner appended to the losers as well
ChampMatchLoserIsWinner(op, a, b, strength_map, d) ==
    LET sa == StrengthOf(strength_map, a)
        sb == StrengthOf(strength_map, b)
        aWins == RLt(d.u, pairwise_win_prob(sa, sb))
    IN  [winner |-> IF aWins THEN a ELSE b,
         loser |-> IF aWins THEN a ELSE b,
         ev |-> Ev(op, "", a, b, IF aWins THEN a ELSE b)]

\* one match of the combined bracket between a and b, decided by draw d
ChampMatch(op, a, b, strength_map, d) ==
    LET sa == StrengthOf(strength_map, a)
        sb == StrengthOf(strength_map, b)
        Decided(winner, loser) ==
            [winner |-> winner, loser |-> loser, ev |-> Ev(op, "", a, b, winner)]
    IN  IF RLt(d.u, pairwise_win_prob(sa, sb))
        THEN Decided(a, b)
        ELSE Decided(b, a)

\* "for i, j in pairs": the matches pool[i] v pool[j] from the k-th pair on;
\* acc = [err, winners, losers, st] holds what the loop has built so far.
RECURSIVE PlayPairs(_, _, _, _, _, _)
PlayPairs(pairs, k, pool, strength_map, op, acc) ==
    IF k > Len(pairs) \/ acc.err # NoErr THEN {acc}
    ELSE LET i == pairs[k][1]
             j == pairs[k][2]
         IN  IF ~ValidIndex(pool, i) \/ ~ValidIndex(pool, j)
             THEN {[acc EXCEPT !.err = IndexError]}
             ELSE UNION {
                    PlayPairs(pairs, k + 1, pool, strength_map, op, next)
                    : next \in UNION {
                        {[err |-> NoErr,
                          winners |-> Append(acc.winners, r.winner),
                          losers |-> Append(acc.losers, r.loser),
                          st |-> [acc.st EXCEPT !.rng = d.rng,
                                                !.trace = Append(@, r.ev)]]
                           : r \in {ChampMatch(op, At(pool, i), At(pool, j),
                                               strength_map, d)}}
                        : d \in random_random(acc.st.rng)}}

\* PlayFinal decided without a draw: the first semi winner takes the final
PlayFinalNoDraw(semi_winners, strength_map, op, st) ==
    IF Len(semi_winners) >= 2
    THEN {[err |-> NoErr, winner |-> semi_winners[1],
           st |-> [st EXCEPT !.trace = Append(@,
                     Ev(op, "", semi_winners[1], semi_winners[2], semi_winners[1]))]]}
    ELSE IF Len(semi_winners) = 1
         THEN {[err |-> NoErr, winner |-> semi_winners[1], st |-> st]}
         ELSE {[err |-> IndexError, winner |-> "", st |-> st]}

\* the final between the first two semi winners, or the only semi winner
PlayFinal(semi_winners, strength_map, op, st) ==
    IF Len(semi_winners) >= 2
    THEN UNION {
           {[err |-> NoErr, winner |-> r.winner,
             st |-> [st EXCEPT !.rng = d.rng, !.trace = Append(@, r.ev)]]
              : r \in {ChampMatch(op, semi_winners[1], semi_winners[2],
                                  strength_map, d)}}
           : d \in random_random(st.rng)}
    ELSE IF Len(semi_winners) = 1
         THEN {[err |-> NoErr, winner |-> semi_winners[1], st |-> st]}
         ELSE {[err |-> IndexError, winner |-> "", st |-> st]}

\* ConsolPool with the consolation semis played by the quarter-round winners
ConsolPoolWinners(qf) == qf.winners

\* "a, b = qf_losers[i], qf_losers[j]" of line 175: who plays the
\* consolation semis
ConsolPool(qf) == qf.losers

ChampFail(e, st) ==
    [err |-> e, champ_winner |-> "", consol_winner |-> "", st |-> st]

\* the set of [err, champ_winner, consol_winner, st] the draws allow
simulate_championship(qualifiers, championship_cfg, strength_map, st) ==
    LET qs == championship_cfg.quarterSeed
        semi_pairs == championship_cfg.semiPairs
        start(s) == [err |-> NoErr, winners |-> << >>, losers |-> << >>, st |-> s]
    IN  UNION {
          IF qf.err # NoErr THEN {ChampFail(qf.err, qf.st)}
          ELSE UNION {
            IF cs.err # NoErr THEN {ChampFail(cs.err, cs.st)}
            ELSE UNION {
              IF cf.err # NoErr THEN {ChampFail(cf.err, cf.st)}
              ELSE UNION {
                IF ks.err # NoErr THEN {ChampFail(ks.err, ks.st)}
                ELSE {IF kf.err # NoErr THEN ChampFail(kf.err, kf.st)
                      ELSE [err |-> NoErr, champ_winner |-> cf.winner,
                            consol_winner |-> kf.winner, st |-> kf.st]
                        : kf \in PlayFinal(ks.winners, strength_map, "cfinal", ks.st)}
                : ks \in PlayPairs(semi_pairs, 1, ConsolPool(qf), strength_map,
                                   "csemi", start(cf.st))}
              : cf \in PlayFinal(cs.winners, strength_map, "final", cs.st)}
            : cs \in PlayPairs(semi_pairs, 1, qf.winners, strength_map,
                               "semi", start(qf.st))}
          : qf \in PlayPairs(qs, 1, qualifiers, strength_map, "qf", start(st))}

\* ------------------------------------------------------------------------
\*  TEST DIVISIONS: eight teams, same shape as the women's draw
\* ------------------------------------------------------------------------
MiniIds == <<"t1", "t2", "t3", "t4", "t5", "t6", "t7", "t8">>

\* "mini"   well-formed
\* "order"  a B bracket is listed among the A brackets, before its producers
\* "cgap"   the C event reads a slot that only the D event publishes
\* "dgap"   the D event reads a slot that no match publishes
\* "dup"    two matches publish their loser into the same slot
\* "shared" the D event reads a slot that the C event reads too
\* "lr"     the right child of a match reads the slot its left child publishes
\* "rl"     the left child of a match reads the slot its right child publishes
\* "ghost"  the C event and the D event each name a team the roster lacks
MiniBracket(variant) ==
    LET q1 == CASE variant = "lr" ->
                     match(match(team("t1"), team("t2"), "L1"),
                           match(slot("L1"), team("t3"), "L2"),
                           "L3")
                [] variant = "rl" ->
                     match(match(slot("L2"), team("t1"), "L1"),
                           match(team("t3"), team("t4"), "L2"),
                           "L3")
                [] OTHER ->
                     match(match(team("t1"), team("t2"), "L1"),
                           match(team("t3"), team("t4"),
                                 IF variant = "dup" THEN "L1" ELSE "L2"),
                           "L3")
        q2 == match(match(team("t5"), team("t6"), "L4"),
                    match(team("t7"), team("t8"), "L5"),
                    "L6")
        q3 == match(match(IF variant = "lr" THEN team("t4") ELSE slot("L1"),
                          slot("L4"), "C1"),
                    slot("L6"), "D1")
        q4 == match(match(slot(IF variant = "dup" THEN "L1" ELSE "L2"),
                          slot("L5"), "C2"),
                    slot("L3"), "D2")
        championship == [numQualifiers |-> 4,
                         quarterSeed |-> << <<0, 3>>, <<1, 2>> >>,
                         semiPairs |-> << <<0, 1>> >>]
        c_event == CASE variant = "cgap" -> match2(slot("C1"), slot("X1"))
                     [] variant = "ghost" -> match2(slot("C1"), team("t9"))
                     [] OTHER -> match2(slot("C1"), slot("C2"))
        d_event == CASE variant = "cgap" -> match(slot("D1"), slot("D2"), "X1")
                     [] variant = "dgap" -> match2(slot("D1"), slot("D9"))
                     [] variant = "shared" -> match2(slot("C1"), slot("D2"))
                     [] variant = "ghost" -> match2(team("t0"), slot("D2"))
                     [] OTHER -> match2(slot("D1"), slot("D2"))
    IN  [a_event |-> IF variant = "order" THEN <<q1, q3, q2>> ELSE <<q1, q2>>,
         b_event |-> IF variant = "order" THEN <<q4>> ELSE <<q3, q4>>,
         championship |-> championship,
         c_event |-> c_event,
         d_event |-> d_event]

MiniDivisions == {"mini", "order", "cgap", "dgap", "dup", "shared", "lr", "rl"}
ClubDivisions == {"mens", "womens"}

\* data/bracket_{division}.json
BracketFile(d) ==
    CASE d = "mens" -> build_mens_bracket
      [] d = "womens" -> build_womens_bracket
      [] OTHER -> MiniBracket(d)

\* data/teams_{division}.json
TeamsFile(d) ==
    CASE d = "mens" -> Roster(MensIds)
      [] d = "womens" -> Roster(WomensIds)
      [] OTHER -> Roster(MiniIds)

\* the weights main() builds from its defaults
DefaultWeights == [standings |-> Rat(1, 2), h2h |-> Rat(3, 10), draw |-> Rat(1, 5)]

\* --seed not given
NoSeed == -1

\* ------------------------------------------------------------------------
\*  FULL TOURNAMENT SIMULATION: simulate(teams, bracket, weights, iterations)
\* ------------------------------------------------------------------------
VARIABLES
    division,      \* the division whose files were loaded
    teams,         \* argument: sequence of team records
    bracket,       \* argument: the bracket graph
    weights,       \* argument
    iterations,    \* argument
    seed,          \* --seed, or NoSeed
    rng,           \* state of the module-level generator
    pc,            \* "start" "loop" "phase1".."phase5" "done" "aborted"
    teams_map,     \* id -> team
    strength_map,  \* id -> strength
    event_wins,    \* event -> id -> wins
    trial,         \* trials completed (the loop variable _)
    slot_map,      \* the current trial's Slot Table
    a_qualifiers,
    b_qualifiers,
    results,       \* the list simulate returns
    error,         \* the exception that left simulate, or NoErr
    trace,         \* history: slot reads, slot writes and matches of this trial
    tally,         \* history: this trial's winner of each event ("" if none)
    tables,        \* history: number of Slot Tables created in this run
    skipped,       \* history: trials whose C, D event was skipped
    run,           \* 1, or 2 for the repeated execution
    prev,          \* what the first execution ended with
    probe,         \* arguments of a strength function called on its own
    value,         \* what that call returned
    pending        \* args.divisions: the divisions main has yet to process

vars == <<division, teams, bracket, weights, iterations, seed, rng, pc,
          teams_map, strength_map, event_wins, trial, slot_map,
          a_qualifiers, b_qualifiers, results, error, trace, tally, tables,
          skipped, run, prev, probe, value, pending>>

\* what simulate never assigns: its arguments, and the strength call made
\* outside it
inputs == <<division, teams, bracket, weights, iterations, seed, probe, value,
            pending>>

NoProbe == [fn |-> "none"]
NoValue == [fn |-> "none"]

Events == {"A", "B", "C", "D"}
NoTally == [e \in Events |-> ""]
EmptyMap == << >>

\* lines 209-212
MakeTeamsMap(ts) ==
    [tid \in {ts[i].id : i \in 1..Len(ts)} |->
        ts[CHOOSE i \in 1..Len(ts) :
              ts[i].id = tid /\ \A j \in (i + 1)..Len(ts) : ts[j].id # tid]]
MakeStrengthMap(ts, w) ==
    [tid \in {ts[i].id : i \in 1..Len(ts)} |->
        composite_strength(MakeTeamsMap(ts)[tid], w)]
ZeroWins(ts) == [e \in Events |-> [tid \in {ts[i].id : i \in 1..Len(ts)} |-> 0]]

\* Credit that forgets to count
CreditNone(ew, e, tid) == ew

\* event_wins[e][tid] += 1
Credit(ew, e, tid) == [ew EXCEPT ![e][tid] = @ + 1]

\* round(x, 5), in units of 0.00001 (ties to even)
Round5(x) ==
    CHOOSE v \in {IF 2 * r > d \/ (2 * r = d /\ q % 2 = 1) THEN q + 1 ELSE q
                    : <<q, r, d>> \in {<<(y.n * 100000) \div y.d,
                                         (y.n * 100000) % y.d, y.d>>
                                         : y \in {x}}} : TRUE

\* lines 206-207
ZeroRecord(t) ==
    [teamId |-> t.id, teamName |-> t.name,
     A |-> 0, B |-> 0, C |-> 0, D |-> 0, any |-> 0]

\* lines 260-273
ResultRecord(t, ew, n) ==
    CHOOSE rec \in
      {[teamId |-> t.id, teamName |-> t.name,
        A |-> Round5(pa), B |-> Round5(pb), C |-> Round5(pcc), D |-> Round5(pd),
        any |-> Round5(RMin(RInt(1), RAdd(RAdd(RAdd(pa, pb), pcc), pd)))]
         : <<pa, pb, pcc, pd>> \in {<<Rat(ew["A"][t.id], n), Rat(ew["B"][t.id], n),
                                      Rat(ew["C"][t.id], n), Rat(ew["D"][t.id], n)>>}}
      : TRUE

\* Degenerate with the threshold one too low
DegenerateOnlyEmpty(ts) == Len(ts) < 1

\* "if len(teams) < 2" of line 205
Degenerate(ts) == Len(ts) < 2

\* Tolerated without the except clause
ToleratedNever(err) == FALSE

\* "except KeyError: pass" of lines 247 and 254
Tolerated(err) == err.type = "KeyError"

\* NewSlotTable with the table created once, outside the trial loop
KeepSlotTable(old) == old

\* "slot_map = {}" of line 221
NewSlotTable(old) == EmptyMap

\* RangeExhausted with the loop left one trial early
RangeExhaustedEarly(done, n) == done >= n - 1

\* "for _ in range(iterations)" of line 220 has no value left after done trials
RangeExhausted(done, n) == done >= n

InitRun(budget) ==
    /\ pc = "start"
    /\ rng = IF seed = NoSeed THEN random_unseeded(budget) ELSE random_seed(seed)
    /\ teams_map = EmptyMap
    /\ strength_map = EmptyMap
    /\ event_wins = EmptyMap
    /\ trial = 0
    /\ slot_map = EmptyMap
    /\ a_qualifiers = << >>
    /\ b_qualifiers = << >>
    /\ results = << >>
    /\ error = NoErr
    /\ trace = << >>
    /\ tally = NoTally
    /\ tables = 0
    /\ skipped = [C |-> 0, D |-> 0]

\* The inputs explored: a test division with all its teams (the well-formed
\* one also with none and with one), or a club division with its roster.
Init ==
    /\ division \in MiniDivisions \cup ClubDivisions
    /\ bracket = BracketFile(division)
    /\ \E n \in (IF division = "mini" THEN {0, 1, Len(TeamsFile(division))}
                  ELSE {Len(TeamsFile(division))}) :
          teams = SubSeq(TeamsFile(division), 1, n)
    /\ weights = DefaultWeights
    /\ iterations \in (IF division \in ClubDivisions THEN 1..ClubIter
                        ELSE 0..MaxIter)
    /\ seed \in {NoSeed} \cup 0..MaxSeed
    /\ run = 1
    /\ prev = [pc |-> "", results |-> << >>, error |-> NoErr, pos |-> 0]
    /\ probe = NoProbe
    /\ value = NoValue
    /\ pending = << >>
    /\ InitRun(IF division \in ClubDivisions THEN ClubHigh ELSE MaxHigh)

\* PhaseAfter with the B brackets evaluated before the A brackets
PhaseAfterBFirst(na, nb) ==
    IF nb < Len(bracket.b_event) THEN "phase2"
    ELSE IF na < Len(bracket.a_event) THEN "phase1"
    ELSE "phase3"

\* where the trial goes once na A brackets and nb B brackets are evaluated
PhaseAfter(na, nb) ==
    IF na < Len(bracket.a_event) THEN "phase1"
    ELSE IF nb < Len(bracket.b_event) THEN "phase2"
    ELSE "phase3"

St == [slot_map |-> slot_map, rng |-> rng, trace |-> trace]

\* an exception leaves simulate
Abort(r) ==
    /\ pc' = "aborted"
    /\ error' = r.err
    /\ slot_map' = r.st.slot_map
    /\ rng' = r.st.rng
    /\ trace' = r.st.trace

\* lines 205-218
Start ==
    /\ pc = "start"
    /\ IF Degenerate(teams)
       THEN /\ results' = [i \in 1..Len(teams) |-> ZeroRecord(teams[i])]
            /\ pc' = "done"
            /\ UNCHANGED <<teams_map, strength_map, event_wins>>
       ELSE /\ teams_map' = MakeTeamsMap(teams)
            /\ strength_map' = MakeStrengthMap(teams, weights)
            /\ event_wins' = ZeroWins(teams)
            /\ pc' = "loop"
            /\ UNCHANGED results
    /\ UNCHANGED <<inputs, rng, trial, slot_map, a_qualifiers, b_qualifiers,
                   error, trace, tally, tables, skipped, run, prev>>

\* lines 220-224 (and 230 when a_event is empty): a trial begins
LoopHead ==
    /\ pc = "loop"
    /\ ~RangeExhausted(trial, iterations)
    /\ slot_map' = NewSlotTable(slot_map)
    /\ a_qualifiers' = << >>
    /\ b_qualifiers' = << >>
    /\ trace' = << >>
    /\ tally' = NoTally
    /\ tables' = tables + 1
    /\ pc' = PhaseAfter(0, 0)
    /\ UNCHANGED <<inputs, rng, teams_map, strength_map, event_wins, trial,
                   results, error, skipped, run, prev>>

\* lines 225-227 (and 230): the next A bracket
Phase1 ==
    /\ pc = "phase1"
    /\ \E r \in simulate_tree(bracket.a_event[Len(a_qualifiers) + 1],
                              strength_map, teams_map, St) :
          IF r.err # NoErr
          THEN Abort(r) /\ UNCHANGED a_qualifiers
          ELSE /\ a_qualifiers' = Append(a_qualifiers, r.winner)
               /\ slot_map' = r.st.slot_map
               /\ rng' = r.st.rng
               /\ trace' = r.st.trace
               /\ pc' = PhaseAfter(Len(a_qualifiers) + 1, 0)
               /\ UNCHANGED error
    /\ UNCHANGED <<inputs, teams_map, strength_map, event_wins, trial,
                   b_qualifiers, results, tally, tables, skipped, run, prev>>

\* lines 231-233: the next B bracket
Phase2 ==
    /\ pc = "phase2"
    /\ \E r \in simulate_tree(bracket.b_event[Len(b_qualifiers) + 1],
                              strength_map, teams_map, St) :
          IF r.err # NoErr
          THEN Abort(r) /\ UNCHANGED b_qualifiers
          ELSE /\ b_qualifiers' = Append(b_qualifiers, r.winner)
               /\ slot_map' = r.st.slot_map
               /\ rng' = r.st.rng
               /\ trace' = r.st.trace
               /\ pc' = PhaseAfter(Len(a_qualifiers), Len(b_qualifiers) + 1)
               /\ UNCHANGED error
    /\ UNCHANGED <<inputs, teams_map, strength_map, event_wins, trial,
                   a_qualifiers, results, tally, tables, skipped, run, prev>>

\* all_qualifiers with the B winners seated first
all_qualifiers_b_first == b_qualifiers \o a_qualifiers

\* line 236
all_qualifiers == a_qualifiers \o b_qualifiers

\* lines 236-241: Championship + Consolation
Phase3 ==
    /\ pc = "phase3"
    /\ \E r \in simulate_championship(all_qualifiers, bracket.championship,
                                      strength_map, St) :
          IF r.err # NoErr
          THEN Abort(r) /\ UNCHANGED <<event_wins, tally>>
          ELSE /\ event_wins' = Credit(Credit(event_wins, "A", r.champ_winner),
                                       "B", r.consol_winner)
               /\ tally' = [tally EXCEPT !["A"] = r.champ_winner,
                                         !["B"] = r.consol_winner]
               /\ slot_map' = r.st.slot_map
               /\ rng' = r.st.rng
               /\ trace' = r.st.trace
               /\ pc' = "phase4"
               /\ UNCHANGED error
    /\ UNCHANGED <<inputs, teams_map, strength_map, trial, a_qualifiers,
                   b_qualifiers, results, tables, skipped, run, prev>>

\* lines 244-248: C Event, "except KeyError: pass"
Phase4 ==
    /\ pc = "phase4"
    /\ \E r \in simulate_tree(bracket.c_event, strength_map, teams_map, St) :
          IF r.err # NoErr /\ ~Tolerated(r.err)
          THEN Abort(r) /\ UNCHANGED <<event_wins, tally, skipped>>
          ELSE /\ slot_map' = r.st.slot_map
               /\ rng' = r.st.rng
               /\ trace' = r.st.trace
               /\ pc' = "phase5"
               /\ UNCHANGED error
               /\ IF r.err = NoErr
                  THEN /\ event_wins' = Credit(event_wins, "C", r.winner)
                       /\ tally' = [tally EXCEPT !["C"] = r.winner]
                       /\ UNCHANGED skipped
                  ELSE /\ skipped' = [skipped EXCEPT !.C = @ + 1]
                       /\ UNCHANGED <<event_wins, tally>>
    /\ UNCHANGED <<inputs, teams_map, strength_map, trial, a_qualifiers,
                   b_qualifiers, results, tables, run, prev>>

\* lines 251-255: D Event, then the next trial
Phase5 ==
    /\ pc = "phase5"
    /\ \E r \in simulate_tree(bracket.d_event, strength_map, teams_map, St) :
          IF r.err # NoErr /\ ~Tolerated(r.err)
          THEN Abort(r) /\ UNCHANGED <<event_wins, tally, skipped, trial>>
          ELSE /\ slot_map' = r.st.slot_map
               /\ rng' = r.st.rng
               /\ trace' = r.st.trace
               /\ pc' = "loop"
               /\ trial' = trial + 1
               /\ UNCHANGED error
               /\ IF r.err = NoErr
                  THEN /\ event_wins' = Credit(event_wins, "D", r.winner)
                       /\ tally' = [tally EXCEPT !["D"] = r.winner]
                       /\ UNCHANGED skipped
                  ELSE /\ skipped' = [skipped EXCEPT !.D = @ + 1]
                       /\ UNCHANGED <<event_wins, tally>>
    /\ UNCHANGED <<inputs, teams_map, strength_map, a_qualifiers,
                   b_qualifiers, results, tables, run, prev>>

\* lines 258-275: Convert counts to probabilities; dividing by iterations = 0
\* raises ZeroDivisionError at the first team
Convert ==
    /\ pc = "loop"
    /\ RangeExhausted(trial, iterations)
    /\ IF iterations = 0
       THEN /\ pc' = "aborted"
            /\ error' = ZeroDivisionError
            /\ UNCHANGED results
       ELSE /\ results' = [i \in 1..Len(teams) |->
                             ResultRecord(teams[i], event_wins, iterations)]
            /\ pc' = "done"
            /\ UNCHANGED error
    /\ UNCHANGED <<inputs, rng, teams_map, strength_map, event_wins, trial,
                   slot_map, a_qualifiers, b_qualifiers, trace, tally,
                   tables, skipped, run, prev>>

\* the program is run a second time with the same arguments and --seed
Rerun ==
    /\ pc \in {"done", "aborted"}
    /\ run = 1
    /\ seed # NoSeed
    /\ run' = 2
    /\ prev' = [pc |-> pc, results |-> results, error |-> error, pos |-> rng.pos]
    /\ pc' = "start"
    /\ rng' = random_seed(seed)
    /\ teams_map' = EmptyMap
    /\ strength_map' = EmptyMap
    /\ event_wins' = EmptyMap
    /\ trial' = 0
    /\ slot_map' = EmptyMap
    /\ a_qualifiers' = << >>
    /\ b_qualifiers' = << >>
    /\ results' = << >>
    /\ error' = NoErr
    /\ trace' = << >>
    /\ tally' = NoTally
    /\ tables' = 0
    /\ skipped' = [C |-> 0, D |-> 0]
    /\ UNCHANGED inputs

Next ==
    \/ Start
    \/ LoopHead
    \/ Phase1
    \/ Phase2
    \/ Phase3
    \/ Phase4
    \/ Phase5
    \/ Convert
    \/ Rerun

Spec == Init /\ [][Next]_vars

\* the runs followed to their end: every test division seeded and unseeded,
\* the club divisions under a seed (what an unseeded run draws changes who
\* wins a match, not the steps the run takes)
InitFair == Init /\ (division \in ClubDivisions => seed # NoSeed)

\* simulate runs in one thread and nothing in it waits: a step that can be
\* taken is taken
SpecFair == InitFair /\ [][Next]_vars /\ WF_vars(Next)

\* ------------------------------------------------------------------------
\*  A BRACKET THAT NAMES TEAMS THE ROSTER LACKS
\* ------------------------------------------------------------------------
\* the test roster with the bracket whose C and D events name unknown teams
InitGhost ==
    /\ division = "ghost"
    /\ bracket = BracketFile(division)
    /\ teams = TeamsFile(division)
    /\ weights = DefaultWeights
    /\ iterations \in 0..MaxIter
    /\ seed \in {NoSeed} \cup 0..MaxSeed
    /\ run = 1
    /\ prev = [pc |-> "", results |-> << >>, error |-> NoErr, pos |-> 0]
    /\ probe = NoProbe
    /\ value = NoValue
    /\ pending = << >>
    /\ InitRun(MaxHigh)

SpecGhost == InitGhost /\ [][Next]_vars

\* ------------------------------------------------------------------------
\*  ROSTERS WITH TEAMS OF STRENGTH 0
\* ------------------------------------------------------------------------
\* a team that lost its only game, has no h2h record and is seeded at the
\* seed ceiling: each of its three signals is 0
WeakTeam(tid) ==
    [id |-> tid, name |-> tid, wins |-> 0, losses |-> 1, ties |-> 0,
     h2h |-> << >>, seed |-> SeedCeiling]

\* the test roster with the teams of Z replaced by weak teams
WeakRoster(Z) ==
    [i \in 1..Len(MiniIds) |->
        IF MiniIds[i] \in Z THEN WeakTeam(MiniIds[i])
        ELSE RosterTeam(MiniIds[i], i)]

\* one weak team at either side of a first-round match, two that meet each
\* other, a whole A bracket of them, and enough of them to fill a B bracket
WeakSets ==
    {{"t1"}, {"t4"}, {"t5"}, {"t8"}, {"t5", "t6"},
     {"t1", "t2", "t3", "t4"}, {"t1", "t2", "t5", "t6", "t7", "t8"}}

\* the well-formed test bracket played by a roster with weak teams
InitWeak ==
    /\ division = "weak"
    /\ bracket = BracketFile(division)
    /\ \E Z \in WeakSets : teams = WeakRoster(Z)
    /\ weights = DefaultWeights
    /\ iterations \in 0..MaxIter
    /\ seed \in {NoSeed} \cup 0..MaxSeed
    /\ run = 1
    /\ prev = [pc |-> "", results |-> << >>, error |-> NoErr, pos |-> 0]
    /\ probe = NoProbe
    /\ value = NoValue
    /\ pending = << >>
    /\ InitRun(MaxHigh)

SpecWeak == InitWeak /\ [][Next]_vars

\* ------------------------------------------------------------------------
\*  MAIN: one seeding, then every division in turn
\* ------------------------------------------------------------------------
\* the divisions a command line of this exploration may list
MainDivisions == {"mens", "womens", "mini", "ghost"}

\* lines 332-333 and 347-349 with --seed given and one division listed
InitMain ==
    /\ division \in MainDivisions
    /\ bracket = BracketFile(division)
    /\ teams = TeamsFile(division)
    /\ weights = DefaultWeights
    /\ iterations \in 1..ClubIter
    /\ seed \in 0..MaxSeed
    /\ run = 1
    /\ prev = [pc |-> "", results |-> << >>, error |-> NoErr, pos |-> 0]
    /\ probe = NoProbe
    /\ value = NoValue
    /\ pending = << >>
    /\ InitRun(0)

\* lines 347-349: process_division has returned and the for loop calls it
\* for the next division; the generator is left as the last call left it
NextDivision ==
    /\ pc = "done"
    /\ pending # << >>
    /\ division' = Head(pending)
    /\ pending' = Tail(pending)
    /\ teams' = TeamsFile(Head(pending))
    /\ bracket' = BracketFile(Head(pending))
    /\ pc' = "start"
    /\ teams_map' = EmptyMap
    /\ strength_map' = EmptyMap
    /\ event_wins' = EmptyMap
    /\ trial' = 0
    /\ slot_map' = EmptyMap
    /\ a_qualifiers' = << >>
    /\ b_qualifiers' = << >>
    /\ results' = << >>
    /\ error' = NoErr
    /\ trace' = << >>
    /\ tally' = NoTally
    /\ tables' = 0
    /\ skipped' = [C |-> 0, D |-> 0]
    /\ UNCHANGED <<weights, iterations, seed, rng, run, prev, probe, value>>

\* the program is run again with the same --seed and the same arguments but
\* for --divisions, which now lists another division before this one
RerunAfterOther ==
    /\ pc = "done"
    /\ run = 1
    /\ pending = << >>
    /\ seed # NoSeed
    /\ run' = 2
    /\ prev' = [pc |-> pc, results |-> results, error |-> error, pos |-> rng.pos]
    /\ \E other \in MainDivisions :
          /\ division' = other
          /\ teams' = TeamsFile(other)
          /\ bracket' = BracketFile(other)
    /\ pending' = <<division>>
    /\ pc' = "start"
    /\ rng' = random_seed(seed)
    /\ teams_map' = EmptyMap
    /\ strength_map' = EmptyMap
    /\ event_wins' = EmptyMap
    /\ trial' = 0
    /\ slot_map' = EmptyMap
    /\ a_qualifiers' = << >>
    /\ b_qualifiers' = << >>
    /\ results' = << >>
    /\ error' = NoErr
    /\ trace' = << >>
    /\ tally' = NoTally
    /\ tables' = 0
    /\ skipped' = [C |-> 0, D |-> 0]
    /\ UNCHANGED <<weights, iterations, seed, probe, value>>

NextMain ==
    \/ Start
    \/ LoopHead
    \/ Phase1
    \/ Phase2
    \/ Phase3
    \/ Phase4
    \/ Phase5
    \/ Convert
    \/ NextDivision
    \/ RerunAfterOther

SpecMain == InitMain /\ [][NextMain]_vars

\* ------------------------------------------------------------------------
\*  THE STRENGTH FUNCTIONS CALLED ON THEIR OWN
\* ------------------------------------------------------------------------
\* t.get("h2h"): none, one opponent beaten, one opponent never played, two
\* opponents
H2HSamples ==
    {<< >>,
     <<[w |-> 1, l |-> 0]>>,
     <<[w |-> 0, l |-> 0]>>,
     <<[w |-> 1, l |-> 1], [w |-> 0, l |-> 1]>>}

SeedSamples == {1, SeedCeiling \div 2, SeedCeiling, SeedCeiling + 10}

WeightSamples ==
    {DefaultWeights}
      \cup {[standings |-> Rat(a, 2), h2h |-> Rat(b, 2), draw |-> Rat(c, 2)] :
               a, b, c \in 0..MaxWeightNum}

\* a team record with any small record, against any weights; and the roster
\* team of every seed, against the default weights and the seed weight alone
TeamProbes ==
    {[fn |-> "composite_strength",
      t |-> [id |-> "t1", name |-> "t1", wins |-> w, losses |-> l, ties |-> x,
             h2h |-> h, seed |-> sd],
      weights |-> ws] :
        w \in 0..MaxGames, l \in 0..MaxGames, x \in 0..MaxGames,
        h \in H2HSamples, sd \in SeedSamples, ws \in WeightSamples}
      \cup
    {[fn |-> "composite_strength", t |-> RosterTeam("t1", sd), weights |-> ws] :
        sd \in 1..(SeedCeiling + MaxOver),
        ws \in {DefaultWeights,
                [standings |-> RInt(0), h2h |-> RInt(0), draw |-> RInt(1)]}}

PairProbes ==
    {[fn |-> "pairwise_win_prob", sa |-> Rat(a, 4), sb |-> Rat(b, 4)] :
        a, b \in 0..MaxStrengthNum}

\* simulate is not running
Idle ==
    /\ division = "mini"
    /\ bracket = BracketFile("mini")
    /\ teams = << >>
    /\ weights = DefaultWeights
    /\ iterations = 1
    /\ seed = NoSeed
    /\ run = 1
    /\ prev = [pc |-> "", results |-> << >>, error |-> NoErr, pos |-> 0]
    /\ pending = << >>
    /\ InitRun(0)

InitCalc ==
    /\ probe \in TeamProbes \cup PairProbes
    /\ value = NoValue
    /\ Idle

\* composite_strength(t, weights), with the locals it has when it returns
CallComposite ==
    /\ probe.fn = "composite_strength"
    /\ value = NoValue
    /\ value' = [fn |-> "composite_strength",
                 strength |-> composite_strength(probe.t, probe.weights),
                 w |-> effective_weights(probe.t, probe.weights),
                 parts |-> signals(probe.t, probe.weights),
                 seed_factor |-> seed_factor(probe.t)]
    /\ UNCHANGED <<division, teams, bracket, weights, iterations, seed, probe,
                   rng, pc, teams_map, strength_map, event_wins, trial,
                   slot_map, a_qualifiers, b_qualifiers, results, error,
                   trace, tally, tables, skipped, run, prev, pending>>

\* pairwise_win_prob(sa, sb) and pairwise_win_prob(sb, sa)
CallPairwise ==
    /\ probe.fn = "pairwise_win_prob"
    /\ value = NoValue
    /\ value' = [fn |-> "pairwise_win_prob",
                 ab |-> pairwise_win_prob(probe.sa, probe.sb),
                 ba |-> pairwise_win_prob(probe.sb, probe.sa)]
    /\ UNCHANGED <<division, teams, bracket, weights, iterations, seed, probe,
                   rng, pc, teams_map, strength_map, event_wins, trial,
                   slot_map, a_qualifiers, b_qualifiers, results, error,
                   trace, tally, tables, skipped, run, prev, pending>>

NextCalc ==
    \/ CallComposite
    \/ CallPairwise

SpecCalc == InitCalc /\ [][NextCalc]_vars

\* ------------------------------------------------------------------------
\*  What the bracket graph alone says about a tree
\* ------------------------------------------------------------------------
\* Walk follows a tree in evaluation order from the set of filled slots and
\* the set of known team ids: w = [fail, name, filled], fail being "" or the
\* kind of the first node that cannot be resolved and name what it refers to.
RECURSIVE Walk(_, _, _)
Walk(node, ids, w) ==
    IF w.fail # "" THEN w
    ELSE CASE node.kind = "team" ->
                IF node.team \in ids THEN w
                ELSE [w EXCEPT !.fail = "team", !.name = node.team]
           [] node.kind = "slot" ->
                IF node.slot \in w.filled THEN w
                ELSE [w EXCEPT !.fail = "slot", !.name = node.slot]
           [] node.kind = "match" ->
                LET r == Walk(node.right, ids, Walk(node.left, ids, w))
                IN  IF r.fail = "" /\ node.loserSlot # NoSlot
                    THEN [r EXCEPT !.filled = @ \cup {node.loserSlot}]
                    ELSE r
           [] OTHER -> [w EXCEPT !.fail = "node"]

\* the first slot the tree reads unfilled in the current state, or ""
UnfilledSlot(tree) ==
    LET w == Walk(tree, DOMAIN teams_map,
                  [fail |-> "", name |-> "", filled |-> DOMAIN slot_map])
    IN  IF w.fail = "slot" THEN w.name ELSE ""

\* the qualifying bracket that Phase1 or Phase2 evaluates next
CurrentTree ==
    IF pc = "phase1" THEN bracket.a_event[Len(a_qualifiers) + 1]
    ELSE bracket.b_event[Len(b_qualifiers) + 1]

InTrial == pc \in {"phase1", "phase2", "phase3", "phase4", "phase5"}

Reads(tr) == {i \in 1..Len(tr) : tr[i].op = "read"}
Writes(tr) == {i \in 1..Len(tr) : tr[i].op = "write"}

\* every slot read of the trial comes after a write of that slot in the trial
ReadsFollowWrites(tr) ==
    LET W == Writes(tr)
    IN  \A i \in Reads(tr) : \E j \in W : j < i /\ tr[j].slot = tr[i].slot

SetMax(S) == CHOOSE x \in S : \A y \in S : y <= x

\* every slot read of the trial returns what the last write of that slot
\* before it, in the trial, stored
ReadsReturnLastWrite(tr) ==
    LET W == Writes(tr)
    IN  \A i \in Reads(tr) :
           LET before == {j \in W : j < i /\ tr[j].slot = tr[i].slot}
           IN  before # {} /\ tr[SetMax(before)].a = tr[i].a

\* ------------------------------------------------------------------------
\*  Claims
\* ------------------------------------------------------------------------

\* C1: for the men's and women's brackets, evaluated in the order A brackets,
\* B brackets, championship, C event, D event, every slot a trial reads was
\* written earlier in that trial; the ordering error is never raised and
\* neither the C nor the D event is ever skipped.
C1_ClubSlotsFilledBeforeRead ==
    division \in ClubDivisions =>
        /\ pc # "aborted"
        /\ error = NoErr
        /\ skipped = [C |-> 0, D |-> 0]
        /\ ReadsFollowWrites(trace)

\* a finished men's trial that drew a 0.75: 19 B, 11 C and 4 D slot reads
C1_Witness ==
    /\ division = "mens"
    /\ pc = "done"
    /\ ~rng.seeded /\ rng.hi = 0
    /\ Cardinality(Reads(trace)) = 34

\* C2: a slot read unfilled inside an A or B bracket aborts the run with an
\* error naming that slot: no Result Records, no further trial.
C2_UnfilledQualifierSlotAborts ==
    [][/\ (pc \in {"phase1", "phase2"} /\ UnfilledSlot(CurrentTree) # "")
            => /\ pc' = "aborted"
               /\ error' = [type |-> "KeyError",
                            slot |-> UnfilledSlot(CurrentTree), key |-> ""]
               /\ results' = << >>
               /\ trial' = trial /\ tables' = tables
       /\ pc = "aborted" => (run = 1 /\ run' = 2)]_vars

\* the misordered division aborts in its first trial, on slot L4
C2_Witness ==
    /\ division = "order"
    /\ pc = "aborted"
    /\ error.type = "KeyError" /\ error.slot = "L4"
    /\ results = << >>
    /\ trial = 0 /\ tables = 1 /\ iterations = 2

\* C3: when the C (D) event reads an unfilled slot, the trial credits no C
\* (D) win, keeps the wins counted so far, still evaluates the other
\* lower-tier event and the run goes on to the next trial.
C3_LowerTierSkipped ==
    [][/\ (pc = "phase4" /\ UnfilledSlot(bracket.c_event) # "")
            => /\ event_wins' = event_wins
               /\ error' = NoErr
               /\ pc' = "phase5"
               /\ trial' = trial
       /\ (pc = "phase5" /\ UnfilledSlot(bracket.d_event) # "")
            => /\ event_wins' = event_wins
               /\ error' = NoErr
               /\ pc' = "loop"
               /\ trial' = trial + 1]_vars

\* two trials done, the C event skipped in both, the D event won in the last
C3_Witness ==
    /\ division = "cgap"
    /\ pc = "done"
    /\ trial = 2
    /\ skipped = [C |-> 2, D |-> 0]
    /\ tally["C"] = "" /\ tally["D"] # ""
    /\ \A tid \in DOMAIN teams_map : event_wins["C"][tid] = 0

\* C4: the Slot Table is empty when a trial starts: every entry of the table
\* was written during the current trial, every read returns a value written
\* during the current trial, and each trial gets its own table.
C4_SlotTableFreshPerTrial ==
    /\ DOMAIN slot_map = {trace[j].slot : j \in Writes(trace)}
    /\ ReadsReturnLastWrite(trace)
    /\ (pc = "phase1" /\ a_qualifiers = << >>) => slot_map = EmptyMap
    /\ tables = IF InTrial \/ (pc = "aborted" /\ error # ZeroDivisionError)
                THEN trial + 1 ELSE trial

\* the second trial skips the C event although the first trial published X1
C4_Witness ==
    /\ division = "cgap"
    /\ trial = 1
    /\ pc = "phase5"
    /\ skipped.C = 2
    /\ "X1" \notin DOMAIN slot_map

\* ------------------------------------------------------------------------
\*  More of what the bracket graph alone says
\* ------------------------------------------------------------------------
\* the loserSlot names, the slot references and the team references of a
\* tree, each in evaluation order
RECURSIVE LoserSlots(_)
LoserSlots(node) ==
    IF node.kind # "match" THEN << >>
    ELSE LoserSlots(node.left) \o LoserSlots(node.right)
           \o (IF node.loserSlot # NoSlot THEN <<node.loserSlot>> ELSE << >>)
RECURSIVE SlotRefs(_)
SlotRefs(node) ==
    CASE node.kind = "slot" -> <<node.slot>>
      [] node.kind = "match" -> SlotRefs(node.left) \o SlotRefs(node.right)
      [] OTHER -> << >>
RECURSIVE TeamRefs(_)
TeamRefs(node) ==
    CASE node.kind = "team" -> <<node.team>>
      [] node.kind = "match" -> TeamRefs(node.left) \o TeamRefs(node.right)
      [] OTHER -> << >>

\* every tree of the bracket, in evaluation order
Trees(b) == b.a_event \o b.b_event \o <<b.c_event, b.d_event>>

RECURSIVE OverTrees(_, _, _)
OverTrees(F(_), trees, k) ==
    IF k > Len(trees) THEN << >> ELSE F(trees[k]) \o OverTrees(F, trees, k + 1)

RECURSIVE Flatten(_)
Flatten(pairs) ==
    IF pairs = << >> THEN << >> ELSE Head(pairs) \o Flatten(Tail(pairs))

NoRepeat(seq) == \A i, j \in 1..Len(seq) : seq[i] = seq[j] => i = j

\* no two Match nodes publish into the same slot
DistinctLoserSlots(b) == NoRepeat(OverTrees(LoserSlots, Trees(b), 1))

\* every competitor enters through one Competitor node, every slot is
\* published by at most one match and read by at most one Slot node, and no
\* index occurs twice in quarterSeed or in semiPairs
SingleUse(b) ==
    /\ DistinctLoserSlots(b)
    /\ NoRepeat(OverTrees(SlotRefs, Trees(b), 1))
    /\ NoRepeat(OverTrees(TeamRefs, Trees(b), 1))
    /\ NoRepeat(Flatten(b.championship.quarterSeed))
    /\ NoRepeat(Flatten(b.championship.semiPairs))
    /\ \A i \in 1..Len(Flatten(b.championship.quarterSeed)) :
          Flatten(b.championship.quarterSeed)[i] >= 0
    /\ \A i \in 1..Len(Flatten(b.championship.semiPairs)) :
          Flatten(b.championship.semiPairs)[i] >= 0

\* the events of the current trial with the given op, in order
EvSeq(op) == SelectSeq(trace, LAMBDA e : e.op = op)

LoserOf(e) == IF e.w = e.a THEN e.b ELSE e.a

\* the winner of the match at the root of a qualifying bracket, this trial
RootWinner(tree) ==
    LET at == {i \in 1..Len(trace) :
                 trace[i].op = "match" /\ trace[i].slot = tree.loserSlot}
    IN  trace[SetMax(at)].w

Total(tid) ==
    event_wins["A"][tid] + event_wins["B"][tid]
        + event_wins["C"][tid] + event_wins["D"][tid]

\* C5 as claimed: in a run without error no slot is written twice in a trial
C5_NoSlotWrittenTwice ==
    (error = NoErr /\ skipped = [C |-> 0, D |-> 0]) =>
        LET W == Writes(trace)
        IN  \A i, j \in W : trace[i].slot = trace[j].slot => i = j

\* C5: when no two Match nodes of the bracket graph name the same loserSlot,
\* every slot of the Slot Table is written once per trial, by the match whose
\* loserSlot names it, which stores its loser, and the value stays.
C5_WrittenOnceByItsMatch ==
    DistinctLoserSlots(bracket) =>
        LET W == Writes(trace)
        IN  /\ \A i, j \in W : trace[i].slot = trace[j].slot => i = j
            /\ \A i \in W :
                  /\ trace[i - 1].op = "match"
                  /\ trace[i - 1].slot = trace[i].slot
                  /\ trace[i].a = LoserOf(trace[i - 1])
                  /\ trace[i].slot \in DOMAIN slot_map
                  /\ slot_map[trace[i].slot] = trace[i].a

\* a finished women's trial: all 18 slots written, one by a left-hand loser
C5_Witness ==
    /\ division = "womens"
    /\ pc = "done"
    /\ Cardinality(DOMAIN slot_map) = 18
    /\ Cardinality(Writes(trace)) = 18
    /\ \E i \in Writes(trace) : trace[i].a = trace[i - 1].a

\* C6 as claimed: whenever every slot read follows its write, no competitor
\* wins two events of one trial and no competitor has more wins than trials
C6_WinnersExclusive ==
    (error = NoErr /\ skipped = [C |-> 0, D |-> 0] /\ ~Degenerate(teams)) =>
        /\ \A e, f \in Events : (tally[e] # "" /\ tally[e] = tally[f]) => e = f
        /\ pc \in {"loop", "done"} =>
              \A tid \in DOMAIN event_wins["A"] : Total(tid) <= trial

\* C6: in a bracket graph where every competitor, slot and qualifier index is
\* used once, the winners of A, B, C and D of one trial are distinct
\* competitors, and after N trials no competitor has more than N wins.
C6_WinnersExclusiveSingleUse ==
    (SingleUse(bracket) /\ ~Degenerate(teams) /\ pc # "start") =>
        /\ \A e, f \in Events : (tally[e] # "" /\ tally[e] = tally[f]) => e = f
        /\ \A tid \in DOMAIN event_wins["A"] :
              Total(tid) <= IF InTrial \/ pc = "aborted" THEN trial + 1 ELSE trial

\* a finished men's run whose trials had four events won by four competitors,
\* one of them a winner in every trial
C6_Witness ==
    /\ division = "mens"
    /\ pc = "done"
    /\ Cardinality({tally[e] : e \in Events} \ {""}) = 4
    /\ \E tid \in DOMAIN event_wins["A"] : Total(tid) = trial

C8_DegenerateInput ==
    Len(teams) < 2 =>
        /\ pc \in {"start", "done"}
        /\ rng.pos = 0
        /\ tables = 0 /\ trial = 0
        /\ trace = << >> /\ slot_map = EmptyMap
        /\ error = NoErr
        /\ pc = "done" =>
              /\ Len(results) = Len(teams)
              /\ \A i \in 1..Len(teams) :
                    results[i] = [teamId |-> teams[i].id, teamName |-> teams[i].name,
                                  A |-> 0, B |-> 0, C |-> 0, D |-> 0, any |-> 0]

\* simulate has returned the single record of a single competitor
C8_Witness ==
    /\ Len(teams) = 1
    /\ pc = "done"
    /\ Len(results) = 1
    /\ results[1].teamId = "t1"

\* C9: the qualifiers are the A bracket winners then the B bracket winners,
\* in declared order; quarter match k plays qualifiers i and j of the k-th
\* quarterSeed pair; the semi for a semiPairs pair [i, j] plays the winners of
\* quarter matches i and j; the A champion wins the final of the first two
\* semi winners, or is the only semi winner.
C9_CombinedBracketPairing ==
    tally["A"] # "" =>
        LET qs == bracket.championship.quarterSeed
            sp == bracket.championship.semiPairs
            na == Len(bracket.a_event)
            nb == Len(bracket.b_event)
            Q == all_qualifiers
            qf == EvSeq("qf")
            sf == EvSeq("semi")
            fin == EvSeq("final")
        IN  /\ Len(Q) = na + nb
            /\ \A i \in 1..na : Q[i] = RootWinner(bracket.a_event[i])
            /\ \A i \in 1..nb : Q[na + i] = RootWinner(bracket.b_event[i])
            /\ Len(qf) = Len(qs)
            /\ \A k \in 1..Len(qs) :
                  qf[k].a = Q[qs[k][1] + 1] /\ qf[k].b = Q[qs[k][2] + 1]
            /\ Len(sf) = Len(sp)
            /\ \A k \in 1..Len(sp) :
                  sf[k].a = qf[sp[k][1] + 1].w /\ sf[k].b = qf[sp[k][2] + 1].w
            /\ IF Len(sp) >= 2
               THEN /\ Len(fin) = 1
                    /\ fin[1].a = sf[1].w /\ fin[1].b = sf[2].w
                    /\ tally["A"] = fin[1].w
               ELSE /\ fin = << >>
                    /\ tally["A"] = sf[1].w

\* a men's championship whose final was won by the second semi winner
C9_Witness ==
    /\ division = "mens"
    /\ pc = "phase4"
    /\ Len(EvSeq("final")) = 1
    /\ EvSeq("final")[1].w = EvSeq("final")[1].b
    /\ tally["A"] = EvSeq("semi")[2].w

\* C10 as claimed: the losers of the primary semi-round matches enter the
\* consolation bracket
C10_SemiLosersEnterConsolation ==
    tally["B"] # "" =>
        LET consol == EvSeq("csemi") \o EvSeq("cfinal")
            sf == EvSeq("semi")
        IN  \A k \in 1..Len(sf) :
               \E m \in 1..Len(consol) :
                  LoserOf(sf[k]) \in {consol[m].a, consol[m].b}

\* C10: the B champion comes from the losers of the quarter-round matches
\* alone: the consolation semi for a semiPairs pair [i, j] plays the losers of
\* quarter matches i and j, the B champion wins the final of the first two
\* consolation semi winners (or is the only one) and so lost a quarter match;
\* with distinct qualifiers and quarterSeed indices, no competitor of a
\* primary semi-round match can be the B champion.
C10_ConsolationFromQuarterLosers ==
    tally["B"] # "" =>
        LET sp == bracket.championship.semiPairs
            qf == EvSeq("qf")
            sf == EvSeq("semi")
            cs == EvSeq("csemi")
            cf == EvSeq("cfinal")
        IN  /\ Len(cs) = Len(sp)
            /\ \A k \in 1..Len(sp) :
                  /\ cs[k].a = LoserOf(qf[sp[k][1] + 1])
                  /\ cs[k].b = LoserOf(qf[sp[k][2] + 1])
            /\ IF Len(sp) >= 2
               THEN /\ Len(cf) = 1
                    /\ cf[1].a = cs[1].w /\ cf[1].b = cs[2].w
                    /\ tally["B"] = cf[1].w
               ELSE /\ cf = << >>
                    /\ tally["B"] = cs[1].w
            /\ \E k \in 1..Len(qf) : tally["B"] = LoserOf(qf[k])
            /\ (NoRepeat(all_qualifiers)
                  /\ NoRepeat(Flatten(bracket.championship.quarterSeed)))
               => \A k \in 1..Len(sf) : tally["B"] \notin {sf[k].a, sf[k].b}

\* a men's consolation final won by the second consolation semi winner
C10_Witness ==
    /\ division = "mens"
    /\ pc = "phase4"
    /\ Len(EvSeq("cfinal")) = 1
    /\ tally["B"] = EvSeq("cfinal")[1].b

\* ------------------------------------------------------------------------
\*  Order of evaluation inside a tree
\* ------------------------------------------------------------------------
\* what evaluating a tree does to the Slot Table, in order, when no slot is
\* missing: left subtree, right subtree, the match, the write of its loser
RECURSIVE Shape(_)
Shape(node) ==
    CASE node.kind = "slot" -> <<[op |-> "read", slot |-> node.slot]>>
      [] node.kind = "match" ->
           Shape(node.left) \o Shape(node.right)
             \o <<[op |-> "match", slot |-> node.loserSlot]>>
             \o (IF node.loserSlot # NoSlot
                 THEN <<[op |-> "write", slot |-> node.loserSlot]>>
                 ELSE << >>)
      [] OTHER -> << >>

\* the reads, matches and writes of the trial's trees, in order
TreeOps(tr) ==
    LET sel == SelectSeq(tr, LAMBDA e : e.op \in {"read", "match", "write"})
    IN  [i \in 1..Len(sel) |-> [op |-> sel[i].op, slot |-> sel[i].slot]]

\* the qualifying brackets the current trial has evaluated
QualifiersDone ==
    SubSeq(bracket.a_event, 1, Len(a_qualifiers))
        \o SubSeq(bracket.b_event, 1, Len(b_qualifiers))

\* C11: a Match node resolves its left subtree, with the slot writes made in
\* it, then its right subtree, then draws its own outcome, then writes the
\* loser into loserSlot: the reads, matches and writes of every evaluated
\* tree come in that order; a slot published in the left subtree is read in
\* the right subtree of the same match ("lr"), and a slot published in the
\* right subtree is unfilled when the left subtree reads it ("rl").
C11_LeftThenRightThenMatch ==
    /\ pc \in {"phase1", "phase2", "phase3", "phase4"}
          => TreeOps(trace) = OverTrees(Shape, QualifiersDone, 1)
    /\ (pc = "phase5" /\ tally["C"] # "")
          => TreeOps(trace) = OverTrees(Shape, QualifiersDone \o <<bracket.c_event>>, 1)
    /\ (pc \in {"loop", "done"} /\ tally["C"] # "" /\ tally["D"] # "")
          => TreeOps(trace) = OverTrees(Shape, Trees(bracket), 1)
    /\ \A i \in 1..Len(trace) :
          trace[i].op = "write" =>
             /\ trace[i - 1].op = "match"
             /\ trace[i - 1].slot = trace[i].slot
    /\ division = "lr" =>
          /\ error.type # "KeyError"
          /\ Len(trace) >= 3 =>
                /\ trace[3] = Ev("read", "L1", LoserOf(trace[1]), "", "")
                /\ trace[2] = Ev("write", "L1", LoserOf(trace[1]), "", "")
    /\ division = "rl" =>
          /\ a_qualifiers = << >> /\ trial = 0 /\ trace = << >>
          /\ pc \notin {"start", "loop", "phase1"} =>
                (pc = "aborted" /\ (iterations > 0 => error = SlotError("L2")))

\* the first bracket of "lr" was won by the competitor who had lost its first
\* match and came back through slot L1
C11_Witness ==
    /\ division = "lr"
    /\ pc = "done"
    /\ trace[3].op = "read" /\ trace[3].slot = "L1"
    /\ trace[4].op = "match" /\ trace[4].w = trace[3].a
    /\ a_qualifiers[1] = LoserOf(trace[1])

\* ------------------------------------------------------------------------
\*  Pseudorandom values consumed
\* ------------------------------------------------------------------------
RECURSIVE MatchCount(_)
MatchCount(node) ==
    IF node.kind # "match" THEN 0
    ELSE MatchCount(node.left) + MatchCount(node.right) + 1

RECURSIVE SumOver(_, _, _)
SumOver(F(_), seq, k) ==
    IF k > Len(seq) THEN 0 ELSE F(seq[k]) + SumOver(F, seq, k + 1)

\* the matches of the combined bracket: quarter round, primary semis and
\* final, consolation semis and final (a final needs two semi winners)
ChampionshipMatches(cfg) ==
    Len(cfg.quarterSeed) + 2 * Len(cfg.semiPairs)
        + (IF Len(cfg.semiPairs) >= 2 THEN 2 ELSE 0)

\* the matches of one trial in which nothing is skipped
MatchesPerTrial(b) ==
    SumOver(MatchCount, Trees(b), 1) + ChampionshipMatches(b.championship)

\* the matches the current trial has played so far
Played(tr) ==
    Len(SelectSeq(tr, LAMBDA e :
          e.op \in {"match", "qf", "semi", "final", "csemi", "cfinal"}))

\* C12: every match played consumes one pseudorandom value, so as long as no
\* C or D event is skipped every trial consumes the same number of values,
\* the number of Match nodes of all trees plus the matches of the combined
\* bracket, whoever wins.
C12_OneDrawPerMatch ==
    (skipped = [C |-> 0, D |-> 0] /\ pc # "start") =>
        LET N == MatchesPerTrial(bracket)
        IN  /\ rng.pos = trial * N
                            + (IF InTrial \/ pc = "aborted" THEN Played(trace) ELSE 0)
            /\ (pc \in {"loop", "done"} /\ trial > 0) => Played(trace) = N

\* a men's trial in which a right-hand competitor won has consumed 57 values
C12_Witness ==
    /\ division = "mens"
    /\ pc = "done"
    /\ trial = 1
    /\ ~rng.seeded /\ rng.hi = 0
    /\ rng.pos = 57
    /\ Played(trace) = 57

\* ------------------------------------------------------------------------
\*  What a trial leaves alone
\* ------------------------------------------------------------------------
\* the loserSlot names of the matches a step has added to the trace
NamedBy(old, new) ==
    {new[i].slot : i \in {j \in (Len(old) + 1)..Len(new) : new[j].op = "match"}}
        \ {NoSlot}

C14_AllTrialsOrAbort ==
    /\ [](~Degenerate(teams) =>
            /\ pc = "done" =>
                  /\ trial = iterations /\ tables = iterations
                  /\ Len(results) = Len(teams)
                  /\ error = NoErr
            /\ pc = "aborted" => (results = << >> /\ error # NoErr)
            /\ pc \notin {"done", "aborted"} => results = << >>
            /\ trial <= iterations)
    /\ (pc = "start") ~> (pc \in {"done", "aborted"})

\* the run of two trials has returned its eight records
C14_Witness ==
    /\ division = "mini"
    /\ Len(teams) = 8
    /\ pc = "done"
    /\ iterations = 2 /\ trial = 2
    /\ Len(results) = 8

\* ------------------------------------------------------------------------
\*  The strength functions
\* ------------------------------------------------------------------------
Zero == RInt(0)
One == RInt(1)
Composite == value.fn = "composite_strength"
TotalWeight(w) == RAdd(RAdd(w.standings, w.h2h), w.draw)
NoH2H == probe.t.h2h = << >>

C17_H2HWeightRedistributed ==
    (Composite /\ NoH2H
       /\ RLt(Zero, RAdd(probe.weights.standings, probe.weights.draw))) =>
        LET w == probe.weights
            e == value.w
        IN  /\ e.h2h = Zero
            /\ value.parts.wh = Zero
            /\ RAdd(e.standings, e.draw) = TotalWeight(w)
            /\ RMul(e.standings, w.draw) = RMul(e.draw, w.standings)
            /\ RLe(w.standings, e.standings) /\ RLe(w.draw, e.draw)

\* the default weights 0.5, 0.3, 0.2 become 5/7, 0, 2/7
C17_Witness ==
    /\ Composite /\ NoH2H
    /\ probe.weights = DefaultWeights
    /\ value.w = [standings |-> Rat(5, 7), h2h |-> Zero, draw |-> Rat(2, 7)]

\* C18 as claimed: without head-to-head data and with standings and seed
\* weight 0, nothing is redistributed and the h2h signal adds nothing
C18_H2HContributesZero ==
    (Composite /\ NoH2H
       /\ probe.weights.standings = Zero /\ probe.weights.draw = Zero) =>
        /\ value.w = probe.weights
        /\ value.parts.wh = Zero

\* C18: without head-to-head data and with standings and seed weight 0,
\* nothing is redistributed and the h2h signal is the neutral 0.5: it adds
\* half the h2h weight, which is then the whole strength.
C18_H2HContributesHalfWeight ==
    (Composite /\ NoH2H
       /\ probe.weights.standings = Zero /\ probe.weights.draw = Zero) =>
        /\ value.w = probe.weights
        /\ value.parts.wh = RMul(probe.weights.h2h, Half)
        /\ value.strength = RMul(probe.weights.h2h, Half)

\* weights 0, 1, 0 and no head-to-head data: strength 0.5
C18_Witness ==
    /\ Composite /\ NoH2H
    /\ probe.weights = [standings |-> Zero, h2h |-> One, draw |-> Zero]
    /\ value.strength = Half

\* C19 as claimed: the seed signal is 1.0 for seed 1, 0.0 from seed 50 on,
\* linear in between and never negative
C19_SeedSignalOneAtSeedOne ==
    Composite =>
        LET sd == probe.t.seed
        IN  /\ sd = 1 => value.seed_factor = One
            /\ sd >= SeedCeiling => value.seed_factor = Zero
            /\ (1 <= sd /\ sd <= SeedCeiling) =>
                  value.seed_factor = Rat(SeedCeiling - sd, SeedCeiling - 1)
            /\ RLe(Zero, value.seed_factor)

\* C19: the seed signal is 1 - seed / 50: 0.98 for seed 1, 0.02 less for
\* every seed after it, 0.0 from seed 50 on, never negative; the seed weight
\* in force multiplies it.
C19_SeedSignalLinear ==
    Composite =>
        LET sd == probe.t.seed
        IN  /\ sd = 1 => value.seed_factor = Rat(49, 50)
            /\ sd >= SeedCeiling => value.seed_factor = Zero
            /\ (1 <= sd /\ sd <= SeedCeiling) =>
                  value.seed_factor = Rat(SeedCeiling - sd, SeedCeiling)
            /\ RLe(Zero, value.seed_factor)
            /\ value.parts.ws_seed = RMul(value.w.draw, value.seed_factor)

\* seed 1 under the seed weight alone: strength 0.98
C19_Witness ==
    /\ Composite
    /\ probe.t.seed = 1
    /\ probe.weights = [standings |-> Zero, h2h |-> Zero, draw |-> One]
    /\ value.seed_factor = Rat(49, 50)
    /\ value.strength = Rat(49, 50)

\* ------------------------------------------------------------------------
\*  The win counters
\* ------------------------------------------------------------------------
RECURSIVE WinsFrom(_, _)
WinsFrom(e, i) ==
    IF i > Len(teams) THEN 0 ELSE event_wins[e][teams[i].id] + WinsFrom(e, i + 1)

\* the wins counted for event e, over all competitors
Wins(e) == WinsFrom(e, 1)

Competitors == {teams[i].id : i \in 1..Len(teams)}

\* C20: after k completed trials the A counters add up to k and so do the B
\* counters (one A winner and one B winner per trial); the C (D) counters add
\* up to k less the trials that skipped the C (D) event; whoever is credited
\* is one of the competitors supplied.
C20_CountersAddUp ==
    (~Degenerate(teams) /\ pc \notin {"start", "aborted"}) =>
        LET k == trial
            champ == IF pc \in {"phase4", "phase5"} THEN 1 ELSE 0
        IN  /\ Wins("A") = k + champ
            /\ Wins("B") = k + champ
            /\ Wins("C") = k - skipped.C + (IF pc = "phase5" THEN 1 ELSE 0)
            /\ Wins("D") = k - skipped.D
            /\ \A e \in Events :
                  /\ DOMAIN event_wins[e] = Competitors
                  /\ tally[e] # "" =>
                        (tally[e] \in Competitors /\ event_wins[e][tally[e]] >= 1)
                  /\ \A tid \in Competitors : event_wins[e][tid] >= 0

\* two trials of a division whose D event is skipped every time: 2 A wins,
\* 2 B wins, 2 C wins, no D win
C20_Witness ==
    /\ division = "dgap"
    /\ pc = "done"
    /\ trial = 2
    /\ skipped = [C |-> 0, D |-> 2]
    /\ Wins("A") = 2 /\ Wins("B") = 2 /\ Wins("C") = 2 /\ Wins("D") = 0

\* ------------------------------------------------------------------------
\*  The club brackets sort every competitor into one place
\* ------------------------------------------------------------------------
SeqSet(seq) == {seq[i] : i \in 1..Len(seq)}

\* the slots the C event and the D event read
CSlots == SeqSet(SlotRefs(bracket.c_event))
DSlots == SeqSet(SlotRefs(bracket.d_event))

\* every slot a match of the bracket publishes
PublishedSlots == SeqSet(OverTrees(LoserSlots, Trees(bracket), 1))

\* the trial whose trace is kept has run through its D event
TrialOver == pc \in {"loop", "done"} /\ trial > 0

\* the A and B brackets of the current trial are evaluated
QualifyingOver == pc \in {"phase3", "phase4", "phase5"} \/ TrialOver

\* combined-bracket qualifiers, C slots and D slots of each club division
GroupSizes ==
    IF division = "mens" THEN [q |-> 8, c |-> 11, d |-> 4]
    ELSE [q |-> 4, c |-> 6, d |-> 2]

\* C21: in the men's and women's brackets no slot is read twice in a trial
\* and a finished trial has read every published slot once; no match of a
\* trial, in a bracket tree or in the combined bracket, pairs a competitor
\* with itself; once the A and B brackets are evaluated the competitors
\* split into the qualifiers, the holders of one C slot each and the
\* holders of one D slot each, 8 + 11 + 4 for men and 4 + 6 + 2 for women.
C21_ClubBracketPartition ==
    division \in ClubDivisions =>
      LET R == Reads(trace)
          Q == SeqSet(all_qualifiers)
          CH == {slot_map[s] : s \in CSlots}
          DH == {slot_map[s] : s \in DSlots}
      IN  /\ \A i, j \in R : trace[i].slot = trace[j].slot => i = j
          /\ TrialOver => {trace[i].slot : i \in R} = PublishedSlots
          /\ \A i \in 1..Len(trace) :
                trace[i].op \notin {"read", "write"} => trace[i].a # trace[i].b
          /\ QualifyingOver =>
                /\ CSlots \cup DSlots \subseteq DOMAIN slot_map
                /\ Len(all_qualifiers) = GroupSizes.q
                /\ Cardinality(Q) = GroupSizes.q
                /\ Cardinality(CSlots) = GroupSizes.c
                /\ Cardinality(CH) = GroupSizes.c
                /\ Cardinality(DSlots) = GroupSizes.d
                /\ Cardinality(DH) = GroupSizes.d
                /\ Q \cap CH = {} /\ Q \cap DH = {} /\ CH \cap DH = {}
                /\ Q \cup CH \cup DH = Competitors
                /\ Cardinality(Competitors)
                     = GroupSizes.q + GroupSizes.c + GroupSizes.d

\* a men's trial has finished: 34 slots read, 57 matches played, 23
\* competitors sorted
C21_Witness ==
    /\ division = "mens"
    /\ TrialOver
    /\ Cardinality(Reads(trace)) = 34
    /\ Cardinality({slot_map[s] : s \in CSlots}) = 11
    /\ Cardinality({slot_map[s] : s \in DSlots}) = 4
    /\ Cardinality(SeqSet(all_qualifiers)) = 8

\* ------------------------------------------------------------------------
\*  A lower-tier event that names an unknown competitor
\* ------------------------------------------------------------------------
\* the C (D) event tree has a Competitor node the roster does not list
UnknownCompetitor(e) ==
    LET tree == IF e = "C" THEN bracket.c_event ELSE bracket.d_event
    IN  SeqSet(TeamRefs(tree)) \ Competitors # {}

\* C22: when the C event or the D event names a competitor that is not in
\* the competitor list, no trial omits that event from its tally and the
\* run does not end normally: it aborts.
C22_UnknownCompetitorAborts ==
    \A e \in {"C", "D"} :
       (UnknownCompetitor(e) /\ ~Degenerate(teams)) =>
           /\ skipped[e] = 0
           /\ pc # "done"

\* what the run does instead: it ends normally, every trial having left the
\* event out of the tally
C22_Witness ==
    /\ division = "ghost"
    /\ UnknownCompetitor("C") /\ UnknownCompetitor("D")
    /\ pc = "done"
    /\ error = NoErr
    /\ iterations = 2
    /\ skipped = [C |-> 2, D |-> 2]
    /\ Wins("C") = 0 /\ Wins("D") = 0
    /\ \A i \in 1..Len(results) : results[i].C = 0 /\ results[i].D = 0

\* ------------------------------------------------------------------------
\*  Strength 0 against positive strength
\* ------------------------------------------------------------------------
StrengthIsZero(tid) == StrengthOf(strength_map, tid) = Zero
StrengthIsPositive(tid) == RLt(Zero, StrengthOf(strength_map, tid))

\* the matches of the current trial, in the bracket trees and in the
\* combined bracket
MatchesPlayed == {i \in 1..Len(trace) : trace[i].op \notin {"read", "write"}}

\* C23: in every match between a competitor of strength 0 and one of
\* positive strength, on either side, the one of positive strength wins
\* whatever the draw; a competitor of strength 0 whose opponents all have
\* positive strength has no win counted in any event, and a finished run
\* reports 0 for it in every column.
C23_ZeroStrengthNeverWins ==
    event_wins # EmptyMap =>
      /\ \A i \in MatchesPlayed :
            /\ (StrengthIsZero(trace[i].a) /\ StrengthIsPositive(trace[i].b))
                  => trace[i].w = trace[i].b
            /\ (StrengthIsPositive(trace[i].a) /\ StrengthIsZero(trace[i].b))
                  => trace[i].w = trace[i].a
      /\ \A z \in Competitors :
            (/\ StrengthIsZero(z)
             /\ \A o \in Competitors \ {z} : StrengthIsPositive(o))
              => /\ \A e \in Events : event_wins[e][z] = 0
                 /\ pc = "done" =>
                       \A k \in 1..Len(results) :
                          results[k].teamId = z =>
                             /\ results[k].A = 0 /\ results[k].B = 0
                             /\ results[k].C = 0 /\ results[k].D = 0
                             /\ results[k].any = 0

\* a finished unseeded run of two trials that drew high once and whose last
\* trial played a bracket-tree match with a strength-0 competitor on the
\* left and a combined-bracket match with one on the right
C23_Witness ==
    /\ pc = "done"
    /\ trial = 2
    /\ seed = NoSeed /\ rng.hi = 0
    /\ \E i \in MatchesPlayed :
          /\ trace[i].op = "match"
          /\ StrengthIsZero(trace[i].a) /\ StrengthIsPositive(trace[i].b)
    /\ \E i \in MatchesPlayed :
          /\ trace[i].op # "match"
          /\ StrengthIsPositive(trace[i].a) /\ StrengthIsZero(trace[i].b)

\* ------------------------------------------------------------------------
\*  A division processed after another one
\* ------------------------------------------------------------------------
\* the second execution has finished the division the first one processed
\* alone
SameDivisionAgain == run = 2 /\ pending = << >> /\ pc = "done"

\* C24: with a fixed seed the Result Records of a division are the same
\* whether the division is processed alone or after another division in
\* the same run.
C24_ResultsIndependentOfEarlierDivisions ==
    SameDivisionAgain => results = prev.results

\* the women's records computed after the men's division differ from the
\* records computed alone with the same seed: the men's trial had drawn 57
\* values from the generator both divisions share
C24_Witness ==
    /\ SameDivisionAgain
    /\ division = "womens"
    /\ iterations = 1
    /\ rng.pos = prev.pos + 57
    /\ results # prev.results

====
